---- MODULE Spec2Model ----
(***************************************************************************)
(* A model of old_files_backup/predict_level.py: the command-line level    *)
(* predictor.  The script loads the master corpus at import time, checks   *)
(* its arguments, loads the classifier pipeline and the label encoder,     *)
(* computes the 33rd/66th percentile thresholds, resolves every word       *)
(* (classifier for corpus members, threshold fallback otherwise) and       *)
(* prints one line per word.                                               *)
(*                                                                         *)
(* Numbers are binary64 floats, rounded as the hardware rounds them.        *)
(* Strings that the code inspects character by character (the words and    *)
(* the lemmas) are sequences of Unicode code points.  A cell that may      *)
(* hold a string or a missing value is a pair <<kind, text>> with kind     *)
(* "str" or "nan".                                                         *)
(***************************************************************************)
EXTENDS Integers, Sequences, FiniteSets, TLC

VARIABLES
    pc,          \* position of the script
    corpusFile,  \* environment: the corpus CSV exists
    modelFile,   \* environment: level_model.pkl exists
    encoderFile, \* environment: label_encoder.pkl exists
    argv,        \* sys.argv[1:]
    nanmean,     \* environment: what sums inside pandas' nanmean, "numpy" |
                 \* "bottleneck" ("unset" until pandas is imported)
    df_master,   \* the loaded corpus: a sequence of rows
    pipeline,    \* "unset" | "loaded"
    le,          \* "unset" | "loaded"
    freq_series, \* line 99
    q1, q2,      \* line 100
    df_inputs,   \* the df_input row built for each word so far (line 104)
    routes,      \* the branch taken for each word so far: "classifier" | "fallback"
    results,     \* predict_levels' result list
    stdout,      \* lines printed
    stderr,      \* the message of sys.exit(msg), <<>> when none
    exitCode     \* -1 while running

vars == <<pc, corpusFile, modelFile, encoderFile, nanmean, argv, df_master, pipeline, le,
          freq_series, q1, q2, df_inputs, routes, results, stdout, stderr, exitCode>>

----------------------------------------------------------------------------
(* Bounds *)

MaxRows == 3

MaxWords == 2

\* rows of a corpus that has no genre column
MaxRowsNoGenre == 1

\* rows of the one long corpus (long enough for numpy's unrolled summation)
LongRows == 10

----------------------------------------------------------------------------
(* Natural numbers of any size: a sequence of limbs, least significant      *)
(* first, without leading zero limbs; zero is the empty sequence.            *)

LimbBits == 15

LimbBase == 32768

Pow2(n) == 2 ^ n

RECURSIVE BigTrim(_)
BigTrim(a) == IF a # <<>> /\ a[Len(a)] = 0 THEN BigTrim(SubSeq(a, 1, Len(a) - 1)) ELSE a

RECURSIVE BigFromInt(_)
BigFromInt(n) == IF n = 0 THEN <<>> ELSE <<n % LimbBase>> \o BigFromInt(n \div LimbBase)

RECURSIVE BigToInt(_)
BigToInt(a) == IF a = <<>> THEN 0 ELSE Head(a) + LimbBase * BigToInt(Tail(a))

RECURSIVE BigAddC(_, _, _)
BigAddC(a, b, c) ==
    IF a = <<>> /\ b = <<>> THEN (IF c = 0 THEN <<>> ELSE <<c>>)
    ELSE LET x == IF a = <<>> THEN 0 ELSE Head(a)
             y == IF b = <<>> THEN 0 ELSE Head(b)
             t == x + y + c
         IN  <<t % LimbBase>> \o BigAddC(IF a = <<>> THEN <<>> ELSE Tail(a),
                                          IF b = <<>> THEN <<>> ELSE Tail(b),
                                          t \div LimbBase)

BigAdd(a, b) == BigAddC(a, b, 0)

RECURSIVE BigSubB(_, _, _)
BigSubB(a, b, br) ==
    IF a = <<>> THEN <<>>
    ELSE LET y == IF b = <<>> THEN 0 ELSE Head(b)
             d == Head(a) - y - br
         IN  <<IF d < 0 THEN d + LimbBase ELSE d>>
             \o BigSubB(Tail(a), IF b = <<>> THEN <<>> ELSE Tail(b), IF d < 0 THEN 1 ELSE 0)

\* a - b for a >= b
BigSub(a, b) == BigTrim(BigSubB(a, b, 0))

RECURSIVE BigCmpFrom(_, _, _)
BigCmpFrom(a, b, i) ==
    IF i = 0 THEN 0
    ELSE IF a[i] > b[i] THEN 1
    ELSE IF a[i] < b[i] THEN -1
    ELSE BigCmpFrom(a, b, i - 1)

\* -1, 0 or 1
BigCmp(a, b) ==
    IF Len(a) # Len(b) THEN (IF Len(a) > Len(b) THEN 1 ELSE -1)
    ELSE BigCmpFrom(a, b, Len(a))

RECURSIVE BigMulSmallC(_, _, _)
BigMulSmallC(a, k, c) ==
    IF a = <<>> THEN (IF c = 0 THEN <<>> ELSE <<c>>)
    ELSE LET t == Head(a) * k + c
         IN  <<t % LimbBase>> \o BigMulSmallC(Tail(a), k, t \div LimbBase)

\* a * k for 0 <= k < LimbBase
BigMulSmall(a, k) == BigTrim(BigMulSmallC(a, k, 0))

RECURSIVE BigMul(_, _)
BigMul(a, b) ==
    IF a = <<>> \/ b = <<>> THEN <<>>
    ELSE LET rest == BigMul(a, Tail(b))
         IN  BigAdd(BigMulSmall(a, Head(b)), IF rest = <<>> THEN <<>> ELSE <<0>> \o rest)

RECURSIVE BigDivRec(_, _, _, _)
BigDivRec(a, k, i, r) ==
    IF i = 0 THEN << <<>>, r >>
    ELSE LET cur  == r * LimbBase + a[i]
             rest == BigDivRec(a, k, i - 1, cur % k)
         IN  << Append(rest[1], cur \div k), rest[2] >>

\* <<a div k, a mod k>> for 0 < k < LimbBase
BigDivSmall(a, k) ==
    LET d == BigDivRec(a, k, Len(a), 0) IN << BigTrim(d[1]), d[2] >>

BigShl(a, n) ==
    IF a = <<>> THEN <<>>
    ELSE [i \in 1 .. (n \div LimbBits) |-> 0] \o BigMulSmall(a, Pow2(n % LimbBits))

BigShr(a, n) ==
    LET drop == n \div LimbBits
    IN  IF drop >= Len(a) THEN <<>>
        ELSE BigDivSmall(SubSeq(a, drop + 1, Len(a)), Pow2(n % LimbBits))[1]

RECURSIVE IntBitLen(_)
IntBitLen(n) == IF n = 0 THEN 0 ELSE 1 + IntBitLen(n \div 2)

BigBitLen(a) == IF a = <<>> THEN 0 ELSE LimbBits * (Len(a) - 1) + IntBitLen(a[Len(a)])

RECURSIVE IntTrailingZeros(_)
IntTrailingZeros(n) == IF n % 2 = 1 THEN 0 ELSE 1 + IntTrailingZeros(n \div 2)

RECURSIVE BigTrailingZeros(_)
BigTrailingZeros(a) ==
    IF Head(a) = 0 THEN LimbBits + BigTrailingZeros(Tail(a)) ELSE IntTrailingZeros(Head(a))

BigOdd(a) == a # <<>> /\ Head(a) % 2 = 1

----------------------------------------------------------------------------
(* Floats: IEEE 754 binary64, round to nearest, ties to even.  A finite      *)
(* float is <<sign, m, e>> for (-1)^sign * m * 2^e, with m zero or odd and   *)
(* of at most MantBits bits.  Infinities, subnormals and the sign of zero    *)
(* are not modelled.                                                         *)

MantBits == 53

NaN == <<2, <<>>, 0>>

Zero == <<0, <<>>, 0>>

IsNaN(x) == x[1] = 2

IsZero(x) == x[1] # 2 /\ x[2] = <<>>

\* m * 2^e with m of at most MantBits bits, in canonical form
Canon(s, m, e) ==
    IF m = <<>> THEN Zero
    ELSE LET tz == BigTrailingZeros(m) IN <<s, BigShr(m, tz), e + tz>>

\* the float nearest to m * 2^e, ties to even
Round(s, m, e) ==
    LET bl == BigBitLen(m)
    IN  IF bl <= MantBits THEN Canon(s, m, e)
        ELSE LET sh  == bl - MantBits
                 q   == BigShr(m, sh)
                 rem == BigSub(m, BigShl(q, sh))
                 c   == BigCmp(rem, BigShl(<<1>>, sh - 1))
                 up  == c > 0 \/ (c = 0 /\ BigOdd(q))
             IN  Canon(s, IF up THEN BigAdd(q, <<1>>) ELSE q, e + sh)

\* float(n) of an integer
Num(n) == IF n >= 0 THEN Canon(0, BigFromInt(n), 0) ELSE Canon(1, BigFromInt(-n), 0)

FNeg(x) == IF IsNaN(x) \/ IsZero(x) THEN x ELSE <<1 - x[1], x[2], x[3]>>

FAddFinite(x, y) ==
    LET e == IF x[3] <= y[3] THEN x[3] ELSE y[3]
        a == BigShl(x[2], x[3] - e)
        b == BigShl(y[2], y[3] - e)
        c == BigCmp(a, b)
    IN  IF IsZero(x) THEN y
        ELSE IF IsZero(y) THEN x
        ELSE IF x[1] = y[1] THEN Round(x[1], BigAdd(a, b), e)
        ELSE IF c = 0 THEN Zero
        ELSE IF c > 0 THEN Round(x[1], BigSub(a, b), e)
        ELSE Round(y[1], BigSub(b, a), e)

\* x + y
FAdd(x, y) == IF IsNaN(x) \/ IsNaN(y) THEN NaN ELSE FAddFinite(x, y)

\* x - y
FSub(x, y) == IF IsNaN(x) \/ IsNaN(y) THEN NaN ELSE FAddFinite(x, FNeg(y))

\* x * y
FMul(x, y) ==
    IF IsNaN(x) \/ IsNaN(y) THEN NaN
    ELSE IF IsZero(x) \/ IsZero(y) THEN Zero
    ELSE Round((x[1] + y[1]) % 2, BigMul(x[2], y[2]), x[3] + y[3])

\* x / k for an integer 0 < k < LimbBase: the quotient is taken to more than
\* MantBits + 2 bits and a remainder leaves a sticky bit for the rounding
FDivInt(x, k) ==
    IF IsNaN(x) THEN NaN
    ELSE IF IsZero(x) THEN Zero
    ELSE LET d == BigDivSmall(BigShl(x[2], 5 * LimbBits), k)
         IN  IF d[2] = 0 THEN Round(x[1], d[1], x[3] - 5 * LimbBits)
             ELSE Round(x[1], BigAdd(BigShl(d[1], 1), <<1>>), x[3] - 5 * LimbBits - 1)

\* |x| against |y|: -1, 0 or 1
MagCmp(x, y) ==
    IF IsZero(x) THEN (IF IsZero(y) THEN 0 ELSE -1)
    ELSE IF IsZero(y) THEN 1
    ELSE LET e == IF x[3] <= y[3] THEN x[3] ELSE y[3]
         IN  BigCmp(BigShl(x[2], x[3] - e), BigShl(y[2], y[3] - e))

\* x against y, both finite: -1, 0 or 1
FCmp(x, y) ==
    IF x[1] = 0 /\ y[1] = 0 THEN MagCmp(x, y)
    ELSE IF x[1] = 1 /\ y[1] = 1 THEN MagCmp(y, x)
    ELSE IF x[1] = 0 THEN 1
    ELSE -1

\* x >= y of Python floats: False when either side is NaN
FGe(x, y) == ~IsNaN(x) /\ ~IsNaN(y) /\ FCmp(x, y) >= 0

\* bool(x) of a Python float: zero is falsy, NaN is truthy
FloatTruthy(x) == IsNaN(x) \/ ~IsZero(x)

\* int(floor(x)) for a finite x >= 0
FFloor(x) ==
    IF x[3] >= 0 THEN BigToInt(BigShl(x[2], x[3])) ELSE BigToInt(BigShr(x[2], -x[3]))

----------------------------------------------------------------------------
(* Cells and strings *)

Str(s) == <<"str", s>>

NaNCell == <<"nan", "">>

IsStr(c) == c[1] = "str"

\* bool(c) of a cell: the empty string is falsy, NaN is truthy
CellTruthy(c) == IF IsStr(c) THEN c[2] # "" ELSE TRUE

\* the characters str.strip() removes: Python's whitespace, as code points
IsSpace(ch) ==
    ch \in (9 .. 13) \cup (28 .. 32) \cup {133, 160, 5760} \cup (8192 .. 8202)
           \cup {8232, 8233, 8239, 8287, 12288}

RECURSIVE lstrip(_)
lstrip(w) == IF w # <<>> /\ IsSpace(Head(w)) THEN lstrip(Tail(w)) ELSE w

RECURSIVE rstrip(_)
rstrip(w) == IF w # <<>> /\ IsSpace(w[Len(w)]) THEN rstrip(SubSeq(w, 1, Len(w) - 1)) ELSE w

strip(w) == rstrip(lstrip(w))

----------------------------------------------------------------------------
(* The corpus (df_master): a sequence of rows, empty for a file that holds   *)
(* only the header line.  A row is a record over the columns lemme, cgram,   *)
(* genre, freqlemfilms2, freqlemlivres; the genre column is optional.        *)

Row(l, g, f, b) ==
    [lemme |-> l, cgram |-> "NOM", genre |-> g, freqlemfilms2 |-> f, freqlemlivres |-> b]

DropGenre(r) ==
    [lemme |-> r.lemme, cgram |-> r.cgram,
     freqlemfilms2 |-> r.freqlemfilms2, freqlemlivres |-> r.freqlemlivres]

\* The lemmas "a" and "b"
LemmeA == <<97>>

LemmeB == <<98>>

\* The float read_csv gives for a field written with one decimal: tenths / 10
Tenths(tenths) == FDivInt(Num(tenths), 10)

\* The records a corpus is drawn from: present, partly missing and entirely
\* missing frequency measures, whole and fractional ones; present and missing
\* gender (read_csv loads an empty field as NaN).
RowSet ==
    { Row(LemmeA, Str("m"), Num(0),    Num(2)),
      Row(LemmeA, NaNCell,  NaN,       Num(2)),
      Row(LemmeB, NaNCell,  Tenths(7), Tenths(7)),
      Row(LemmeB, Str("m"), Num(4),    NaN),
      Row(LemmeB, Str("f"), NaN,       NaN) }

SeqsUpTo(S, n) == UNION { [1..k -> S] : k \in 1..n }

\* A corpus of LongRows equal records, both measures 0.1
LongCorpus == [i \in 1 .. LongRows |-> Row(LemmeB, Str("m"), Tenths(1), Tenths(1))]

Corpora ==
    { <<>> }
    \cup SeqsUpTo(RowSet, MaxRows)
    \cup { [i \in DOMAIN c |-> DropGenre(c[i])] : c \in SeqsUpTo(RowSet, MaxRowsNoGenre) }
    \cup { LongCorpus }

\* The words of the command line: "a" (a lemma), "\ta " (the same lemma
\* after a tab and before a blank) and "z" (a word no corpus holds).
InputWords == { <<97>>, <<9, 97, 32>>, <<122>> }

WordLists == {<<>>} \cup SeqsUpTo(InputWords, MaxWords)

----------------------------------------------------------------------------
(* pandas / numpy *)

\* row.get(key, default)
RowGet(row, key, default) == IF key \in DOMAIN row THEN row[key] ELSE default

\* df_master[df_master['lemme'] == w_str]
Match(df, w_str) == SelectSeq(df, LAMBDA r : r.lemme = w_str)

\* Mutant of InLemmeValues: every word counts as known and goes to the pipeline
InLemmeValuesAlways(df, w) == TRUE

\* w in df_master['lemme'].values
InLemmeValues(df, w) == \E i \in DOMAIN df : df[i].lemme = w

\* Mutant of RowMeanSkipna: skipna=False, a missing measure makes the mean NaN
RowMeanNoSkip(row) == FDivInt(FAdd(row.freqlemfilms2, row.freqlemlivres), 2)

\* one row of df[['freqlemfilms2','freqlemlivres']].mean(axis=1, skipna=True)
RowMeanSkipna(row) ==
    LET f == row.freqlemfilms2
        b == row.freqlemlivres
    IN  IF IsNaN(f) /\ IsNaN(b) THEN NaN
        ELSE IF IsNaN(f) THEN b
        ELSE IF IsNaN(b) THEN f
        ELSE FDivInt(FAdd(f, b), 2)

RowMeans(df) == [i \in DOMAIN df |-> RowMeanSkipna(df[i])]

\* Series.fillna(0)
FillNa0(s) == [i \in DOMAIN s |-> IF IsNaN(s[i]) THEN Num(0) ELSE s[i]]

\* the sum, accumulated from the first element to the last
RECURSIVE SumFrom(_, _)
SumFrom(acc, s) == IF s = <<>> THEN acc ELSE SumFrom(FAdd(acc, Head(s)), Tail(s))

\* numpy's pairwise summation (pairwise_sum of the float add loop): a plain
\* loop below PairwiseFrom values, eight running sums combined as a tree up to
\* PW_BLOCKSIZE values, two halves (the first a multiple of eight) beyond
PairwiseFrom == 8

PW_BLOCKSIZE == 128

\* r[j] += a[i + j] for i = 8, 16, ...: the values at k, k + 8, ... up to stop
RECURSIVE LaneFrom(_, _, _, _)
LaneFrom(acc, s, k, stop) ==
    IF k > stop THEN acc ELSE LaneFrom(FAdd(acc, s[k]), s, k + PairwiseFrom, stop)

RECURSIVE PairwiseSum(_)
PairwiseSum(s) ==
    LET n == Len(s)
    IN  IF n < PairwiseFrom THEN SumFrom(Zero, s)
        ELSE IF n <= PW_BLOCKSIZE
        THEN LET full == n - (n % PairwiseFrom)
                 r(j) == LaneFrom(s[j], s, j + PairwiseFrom, full)
                 res  == FAdd(FAdd(FAdd(r(1), r(2)), FAdd(r(3), r(4))),
                              FAdd(FAdd(r(5), r(6)), FAdd(r(7), r(8))))
             IN  SumFrom(res, SubSeq(s, full + 1, n))
        ELSE LET half == n \div 2
                 n2   == half - (half % PairwiseFrom)
             IN  FAdd(PairwiseSum(SubSeq(s, 1, n2)), PairwiseSum(SubSeq(s, n2 + 1, n)))

\* values.sum() of a float64 array: the reduction starts from 0
SumSeq(s) == FAdd(Zero, PairwiseSum(s))

\* Series.mean() (skipna=True), NaN when no value is left.  pandas' own nanmean
\* puts 0 in place of the missing values, sums the array with numpy and divides
\* by the number of values present; a pandas that hands nanmean to bottleneck
\* adds the values present one after the other.
SeriesMean(impl, s) ==
    LET kept  == SelectSeq(s, LAMBDA x : ~IsNaN(x))
        count == Len(kept)
    IN  IF count = 0 THEN NaN
        ELSE IF impl = "bottleneck" THEN FDivInt(SumFrom(Zero, kept), count)
        ELSE FDivInt(SumSeq(FillNa0(s)), count)

\* The implementations of nanmean a run over corpus c can tell apart: below
\* PairwiseFrom values the two add in the same order
NanmeanImpls(c) ==
    IF Len(c) >= PairwiseFrom THEN {"numpy", "bottleneck"} ELSE {"numpy"}

RECURSIVE Insert(_, _)
Insert(x, s) ==
    IF s = <<>> THEN <<x>>
    ELSE IF FGe(Head(s), x) THEN <<x>> \o s
    ELSE <<Head(s)>> \o Insert(x, Tail(s))

RECURSIVE SortAsc(_)
SortAsc(s) == IF s = <<>> THEN <<>> ELSE Insert(Head(s), SortAsc(Tail(s)))

\* numpy's _lerp(a, b, t)
Lerp(a, b, t) ==
    LET diff_b_a == FSub(b, a)
    IN  IF FGe(t, FDivInt(Num(1), 2))
        THEN FSub(b, FMul(diff_b_a, FSub(Num(1), t)))
        ELSE FAdd(a, FMul(diff_b_a, t))

\* np.percentile(s, p) of a non-empty series without NaN, method 'linear':
\* the virtual index (n - 1) * (p / 100), the two ranks around it, _lerp
Percentile(s, p) ==
    LET n   == Len(s)
        srt == SortAsc(s)
        virtual_index == FMul(Num(n - 1), FDivInt(Num(p), 100))
        k   == FFloor(virtual_index)
    IN  IF FGe(virtual_index, Num(n - 1)) THEN srt[n]
        ELSE Lerp(srt[k + 1], srt[k + 2], FSub(virtual_index, Num(k)))

----------------------------------------------------------------------------
(* prepare_input *)

\* the known-word average, line 73
KnownAvg(row) ==
    LET avg == FDivInt(FAdd(RowGet(row, "freqlemfilms2", Num(0)),
                            RowGet(row, "freqlemlivres", Num(0))), 2)
    IN  IF FloatTruthy(avg) THEN avg ELSE Num(0)

\* the gender of a matched row, line 77
KnownGenre(row) ==
    LET g == RowGet(row, "genre", Str("none"))
    IN  IF CellTruthy(g) THEN g ELSE Str("none")

\* avg_global, line 81
GlobalMean(impl, df) == SeriesMean(impl, RowMeans(df))

\* the row prepare_input appends for one word, lines 69-87
FeatureRow(impl, df, w) ==
    LET w_str == strip(w)
        match == Match(df, w_str)
    IN  IF match # <<>>
        THEN LET row == match[1]
             IN  [lemme |-> row.lemme, cgram |-> row.cgram,
                  genre |-> KnownGenre(row), avg_freq |-> KnownAvg(row)]
        ELSE [lemme |-> w_str, cgram |-> "unknown",
              genre |-> Str("none"), avg_freq |-> GlobalMean(impl, df)]

prepare_input(impl, df, words) == [i \in DOMAIN words |-> FeatureRow(impl, df, words[i])]

----------------------------------------------------------------------------
(* predict_levels *)

\* line 99
FreqSeries(df) == FillNa0(RowMeans(df))

\* x > y of Python floats (used by the mutant below)
FGt(x, y) == FGe(x, y) /\ ~FGe(y, x)

\* Mutant of ThresholdLabel: strict comparisons (> for >=)
ThresholdLabelStrict(avg_f, t1, t2) ==
    IF FGt(avg_f, t2) THEN "Level 1"
    ELSE IF FGt(avg_f, t1) THEN "Level 2"
    ELSE "Level 3"

\* lines 113-115
ThresholdLabel(avg_f, t1, t2) ==
    IF FGe(avg_f, t2) THEN "Level 1"
    ELSE IF FGe(avg_f, t1) THEN "Level 2"
    ELSE "Level 3"

\* the classes of the loaded label encoder, and the codes the pipeline returns
EncoderClasses == <<"A1", "B1">>

Codes == 0 .. (Len(EncoderClasses) - 1)

\* le.inverse_transform([code])[0]
InverseTransform(code) == EncoderClasses[code + 1]

\* line 109
ClassifierLabel(code) == "Level " \o InverseTransform(code)

\* Mutant of IsMember: the membership test on the trimmed word
IsMemberStripped(df, w) == InLemmeValues(df, strip(w))

\* line 106
IsMember(df, w) == InLemmeValues(df, w)

\* results.append(label), lines 109 and 113-115
Emit(res, label) == Append(res, label)

----------------------------------------------------------------------------
(* Messages.  A message is a sequence of pieces: ASCII text as a string,     *)
(* other characters as a sequence of code points.  No message is <<>>.       *)

\* line 36; the four code points are the end of the file's name
ErrCorpus ==
    << "Error: Master data file not found at 'data/mettre_fin_Lexique_translated_v6w_",
       <<20462, 27491, 28168, 12415>>,
       ".csv'." >>

\* line 46, with model_path = MODEL_PATH
ErrModel == << "Error: Model file not found at 'level_model.pkl'." >>

\* line 57, with encoder_path = ENCODER_PATH
ErrEncoder == << "Error: Encoder file not found at 'label_encoder.pkl'." >>

\* the last line of the traceback of an np.percentile that raises on an empty
\* series, line 100
PercentileIndexError == << "IndexError: index -1 is out of bounds for axis 0 with size 0" >>

UsageText == "Usage: python predict_level.py <word1> <word2> ..."

\* print_usage(), line 121
UsageLine == <<UsageText>>

\* f"{word} -> {level}", line 132
PredictionLine(word, level) == <<word, " -> ", level>>

\* zip(input_words, preds), line 131
ZipLen(a, b) == IF Len(a) <= Len(b) THEN Len(a) ELSE Len(b)

----------------------------------------------------------------------------
(* The script *)

Init ==
    /\ pc = "import"
    /\ corpusFile \in BOOLEAN
    /\ modelFile \in BOOLEAN
    /\ encoderFile \in BOOLEAN
    /\ nanmean = "unset"
    /\ argv \in WordLists
    /\ df_master = <<>>
    /\ pipeline = "unset"
    /\ le = "unset"
    /\ freq_series = <<>>
    /\ q1 = NaN
    /\ q2 = NaN
    /\ df_inputs = <<>>
    /\ routes = <<>>
    /\ results = <<>>
    /\ stdout = <<>>
    /\ stderr = <<>>
    /\ exitCode = -1

\* sys.exit(msg): the message goes to stderr, the exit status is 1
SysExit(msg) ==
    /\ pc' = "exit"
    /\ stderr' = msg
    /\ exitCode' = 1

\* an exception nothing catches: the traceback goes to stderr, the exit status
\* is 1
Uncaught(traceback) ==
    /\ pc' = "exit"
    /\ stderr' = traceback
    /\ exitCode' = 1

\* the imports and lines 33-36, run when the module is loaded
LoadCorpus ==
    /\ pc = "import"
    /\ IF corpusFile
       THEN /\ \E c \in Corpora :
                  /\ df_master' = c
                  /\ nanmean' \in NanmeanImpls(c)
            /\ pc' = "main"
            /\ UNCHANGED <<stderr, exitCode>>
       ELSE /\ SysExit(ErrCorpus)
            /\ UNCHANGED <<df_master, nanmean>>
    /\ UNCHANGED <<corpusFile, modelFile, encoderFile, argv, pipeline, le,
                   freq_series, q1, q2, df_inputs, routes, results, stdout>>

\* Mutant of Main: the empty-list check is gone
MainNoCheck ==
    /\ pc = "main"
    /\ pc' = "load_pipeline"
    /\ UNCHANGED <<corpusFile, modelFile, encoderFile, nanmean, argv, df_master, pipeline, le,
                   freq_series, q1, q2, df_inputs, routes, results, stdout, stderr, exitCode>>

\* lines 125-128
Main ==
    /\ pc = "main"
    /\ IF argv = <<>>
       THEN /\ stdout' = Append(stdout, UsageLine)
            /\ pc' = "exit"
            /\ exitCode' = 1
       ELSE /\ pc' = "load_pipeline"
            /\ UNCHANGED <<stdout, exitCode>>
    /\ UNCHANGED <<corpusFile, modelFile, encoderFile, nanmean, argv, df_master, pipeline, le,
                   freq_series, q1, q2, df_inputs, routes, results, stderr>>

\* load_pipeline, lines 39-47, called at line 95
LoadPipeline ==
    /\ pc = "load_pipeline"
    /\ IF modelFile
       THEN /\ pipeline' = "loaded"
            /\ pc' = "load_encoder"
            /\ UNCHANGED <<stderr, exitCode>>
       ELSE /\ SysExit(ErrModel)
            /\ UNCHANGED pipeline
    /\ UNCHANGED <<corpusFile, modelFile, encoderFile, nanmean, argv, df_master, le,
                   freq_series, q1, q2, df_inputs, routes, results, stdout>>

\* Mutant of LoadLabelEncoder: the message is written but the process goes on
LoadLabelEncoderNoExit ==
    /\ pc = "load_encoder"
    /\ IF encoderFile
       THEN /\ le' = "loaded"
            /\ UNCHANGED stderr
       ELSE /\ stderr' = ErrEncoder
            /\ UNCHANGED le
    /\ pc' = "thresholds"
    /\ UNCHANGED <<corpusFile, modelFile, encoderFile, nanmean, argv, df_master, pipeline,
                   freq_series, q1, q2, df_inputs, routes, results, stdout, exitCode>>

\* load_label_encoder, lines 50-58, called at line 96
LoadLabelEncoder ==
    /\ pc = "load_encoder"
    /\ IF encoderFile
       THEN /\ le' = "loaded"
            /\ pc' = "thresholds"
            /\ UNCHANGED <<stderr, exitCode>>
       ELSE /\ SysExit(ErrEncoder)
            /\ UNCHANGED le
    /\ UNCHANGED <<corpusFile, modelFile, encoderFile, nanmean, argv, df_master, pipeline,
                   freq_series, q1, q2, df_inputs, routes, results, stdout>>

\* lines 99-100.  On an empty series np.percentile gives NaN for both
\* percentiles or raises IndexError, depending on the numpy release; the
\* exception is not caught: traceback on stderr, exit status 1.
ComputeThresholds ==
    /\ pc = "thresholds"
    /\ freq_series' = FreqSeries(df_master)
    /\ \/ /\ freq_series' # <<>>
          /\ q1' = Percentile(freq_series', 33)
          /\ q2' = Percentile(freq_series', 66)
          /\ pc' = "loop"
          /\ UNCHANGED <<stderr, exitCode>>
       \/ /\ freq_series' = <<>>
          /\ q1' = NaN
          /\ q2' = NaN
          /\ pc' = "loop"
          /\ UNCHANGED <<stderr, exitCode>>
       \/ /\ freq_series' = <<>>
          /\ Uncaught(PercentileIndexError)
          /\ UNCHANGED <<q1, q2>>
    /\ UNCHANGED <<corpusFile, modelFile, encoderFile, nanmean, argv, df_master, pipeline, le,
                   df_inputs, routes, results, stdout>>

\* one iteration of the loop of lines 103-115
PredictWord ==
    /\ pc = "loop"
    /\ Len(routes) < Len(argv)
    /\ LET w        == argv[Len(routes) + 1]
           df_input == prepare_input(nanmean, df_master, <<w>>)
       IN  /\ df_inputs' = Append(df_inputs, df_input[1])
           /\ IF IsMember(df_master, w)
              THEN /\ \E code \in Codes : results' = Emit(results, ClassifierLabel(code))
                   /\ routes' = Append(routes, "classifier")
              ELSE /\ results' = Emit(results, ThresholdLabel(df_input[1].avg_freq, q1, q2))
                   /\ routes' = Append(routes, "fallback")
    /\ UNCHANGED <<pc, corpusFile, modelFile, encoderFile, nanmean, argv, df_master, pipeline, le,
                   freq_series, q1, q2, stdout, stderr, exitCode>>

\* line 117: the loop is over, predict_levels returns to line 130
ReturnResults ==
    /\ pc = "loop"
    /\ Len(routes) = Len(argv)
    /\ pc' = "print"
    /\ UNCHANGED <<corpusFile, modelFile, encoderFile, nanmean, argv, df_master, pipeline, le,
                   freq_series, q1, q2, df_inputs, routes, results, stdout, stderr, exitCode>>

\* one iteration of the loop of lines 131-132
PrintLine ==
    /\ pc = "print"
    /\ Len(stdout) < ZipLen(argv, results)
    /\ LET k == Len(stdout) + 1
       IN  stdout' = Append(stdout, PredictionLine(argv[k], results[k]))
    /\ UNCHANGED <<pc, corpusFile, modelFile, encoderFile, nanmean, argv, df_master, pipeline, le,
                   freq_series, q1, q2, df_inputs, routes, results, stderr, exitCode>>

\* the script runs off its end: exit status 0
Finish ==
    /\ pc = "print"
    /\ Len(stdout) = ZipLen(argv, results)
    /\ pc' = "exit"
    /\ exitCode' = 0
    /\ UNCHANGED <<corpusFile, modelFile, encoderFile, nanmean, argv, df_master, pipeline, le,
                   freq_series, q1, q2, df_inputs, routes, results, stdout, stderr>>

Next ==
    \/ LoadCorpus
    \/ Main
    \/ LoadPipeline
    \/ LoadLabelEncoder
    \/ ComputeThresholds
    \/ PredictWord
    \/ ReturnResults
    \/ PrintLine
    \/ Finish

Spec == Init /\ [][Next]_vars

----------------------------------------------------------------------------
(* Vocabulary of the properties *)

Processed == 1 .. Len(routes)

FallbackLabels == {"Level 1", "Level 2", "Level 3"}

ClassifierLabels == { "Level " \o EncoderClasses[k] : k \in DOMAIN EncoderClasses }

MissingFileErrors == {ErrCorpus, ErrModel, ErrEncoder}

AllFilesPresent == corpusFile /\ modelFile /\ encoderFile

\* the untrimmed word equals some lemma value of the corpus
ExactLemma(w) == \E j \in DOMAIN df_master : df_master[j].lemme = w

\* the trimmed word equals some lemma value of the corpus
TrimmedLemma(w) == \E j \in DOMAIN df_master : df_master[j].lemme = strip(w)

\* the first corpus record whose lemma is the trimmed word
FirstRecord(w) ==
    df_master[CHOOSE j \in DOMAIN df_master :
                 /\ df_master[j].lemme = strip(w)
                 /\ \A h \in 1 .. (j - 1) : df_master[h].lemme # strip(w)]

ZeroIfMissing(x) == IF IsNaN(x) THEN Num(0) ELSE x

Half(x) == FDivInt(x, 2)

----------------------------------------------------------------------------
(* C1 *)

\* C1: for every corpus, with the three files loaded, a run ends with one
\* label per input word, the i-th label being the one resolved for the i-th
\* word (its own feature row, its own branch, a label of that branch), and
\* prints exactly one '{word} -> {label}' line per word, in input order.
C1_OneLabelPerWordInOrder ==
    /\ Len(results) = Len(routes)
    /\ Len(df_inputs) = Len(routes)
    /\ Len(routes) <= Len(argv)
    /\ \A i \in Processed :
          /\ df_inputs[i].lemme = strip(argv[i])
          /\ ExactLemma(argv[i]) => results[i] \in ClassifierLabels
          /\ ~ExactLemma(argv[i]) =>
                /\ results[i] \in FallbackLabels
                /\ results[i] = "Level 1" <=> FGe(df_inputs[i].avg_freq, q2)
                /\ results[i] = "Level 3" <=> ~FGe(df_inputs[i].avg_freq, q1)
                                              /\ ~FGe(df_inputs[i].avg_freq, q2)
    /\ (argv # <<>>) =>
          \A k \in DOMAIN stdout :
             /\ k <= Len(argv)
             /\ stdout[k] = <<argv[k], " -> ", results[k]>>
    /\ (pc = "exit" /\ AllFilesPresent /\ argv # <<>>) =>
          /\ exitCode = 0
          /\ Len(results) = Len(argv)
          /\ Len(stdout) = Len(argv)

----------------------------------------------------------------------------
(* C2 *)

\* C2: a word goes through the classifier (and gets a 'Level {label}' of the
\* encoder) exactly when its untrimmed string equals a lemma of the corpus;
\* any other word goes through the threshold fallback.
C2_RouteByExactMembership ==
    \A i \in Processed :
       /\ routes[i] = "classifier" <=> ExactLemma(argv[i])
       /\ routes[i] = "fallback" <=> ~ExactLemma(argv[i])
       /\ ExactLemma(argv[i]) => results[i] \in ClassifierLabels

\* C2 witness: the lemma goes to the classifier, the same lemma between whitespace
\* goes to the fallback
C2_Witness ==
    /\ argv = << <<97>>, <<9, 97, 32>> >>
    /\ routes = <<"classifier", "fallback">>
    /\ TrimmedLemma(argv[2])

----------------------------------------------------------------------------
(* C3 *)

\* C3: the label of a word absent from the corpus is one of "Level 1",
\* "Level 2", "Level 3", whatever the corpus holds.
C3_FallbackLabelSet ==
    \A i \in Processed :
       ~ExactLemma(argv[i]) => results[i] \in FallbackLabels

\* C3 witness: an absent word labelled over a corpus with no frequency measure
C3_Witness ==
    /\ df_master # <<>>
    /\ \A j \in DOMAIN df_master :
          IsNaN(df_master[j].freqlemfilms2) /\ IsNaN(df_master[j].freqlemlivres)
    /\ \E i \in Processed :
          /\ ~TrimmedLemma(argv[i])
          /\ IsNaN(df_inputs[i].avg_freq)
          /\ results[i] = "Level 3"

----------------------------------------------------------------------------
(* C4 *)

\* C4 as stated: in the fallback an average equal to q2 is "Level 1" and an
\* average equal to q1 is "Level 2", also when q1 = q2.
C4_Original ==
    \A i \in Processed :
       routes[i] = "fallback" =>
          /\ (df_inputs[i].avg_freq = q2 /\ ~IsNaN(q2)) => results[i] = "Level 1"
          /\ (df_inputs[i].avg_freq = q1 /\ ~IsNaN(q1)) => results[i] = "Level 2"

\* C4 amended: in the fallback an average equal to q2 is "Level 1"; an average
\* equal to q1 is "Level 2" when q1 differs from q2 (and "Level 1" when the two
\* percentiles coincide).
C4_Boundaries ==
    \A i \in Processed :
       routes[i] = "fallback" =>
          /\ (df_inputs[i].avg_freq = q2 /\ ~IsNaN(q2)) => results[i] = "Level 1"
          /\ (df_inputs[i].avg_freq = q1 /\ ~IsNaN(q1) /\ q1 # q2) => results[i] = "Level 2"

\* C4 witness: a fallback word whose average is exactly q1, below q2
C4_Witness ==
    \E i \in Processed :
       /\ routes[i] = "fallback"
       /\ ~IsNaN(q1)
       /\ df_inputs[i].avg_freq = q1
       /\ q1 # q2
       /\ results[i] = "Level 2"

----------------------------------------------------------------------------
(* C5 *)

\* C5: a run that reports a missing file has processed no word, made no
\* classifier call and no threshold comparison, and printed nothing; a run
\* over a non-empty list with a file missing ends that way; and a finished
\* run over a non-empty list has printed a line for every word or none.
C5_FailFast ==
    /\ stderr \in MissingFileErrors =>
          /\ pc = "exit"
          /\ exitCode = 1
          /\ stdout = <<>>
          /\ routes = <<>>
          /\ results = <<>>
          /\ df_inputs = <<>>
    /\ (pc = "exit" /\ argv # <<>> /\ ~AllFilesPresent) => stderr \in MissingFileErrors
    /\ (pc = "exit" /\ argv # <<>>) => Len(stdout) \in {0, Len(argv)}

\* C5 witness: the encoder is the missing file, after the pipeline was loaded
C5_Witness ==
    /\ pc = "exit"
    /\ stderr = ErrEncoder
    /\ pipeline = "loaded"
    /\ Len(argv) = 2

----------------------------------------------------------------------------
(* C6 *)

\* C6 as stated: a run with an empty word list prints the usage message and
\* ends with status 1 and no prediction, whatever files are present.
C6_Original ==
    (pc = "exit" /\ argv = <<>>) =>
       /\ stdout = <<UsageLine>>
       /\ exitCode = 1
       /\ results = <<>>

\* C6 amended: with the corpus file present, a run with an empty word list
\* prints the usage message and ends with status 1 and no prediction, whether
\* or not the classifier and encoder files are present; with the corpus file
\* missing it ends with the corpus error message instead (status 1, nothing
\* printed).
C6_EmptyList ==
    /\ (pc = "exit" /\ argv = <<>> /\ corpusFile) =>
          /\ stdout = <<UsageLine>>
          /\ stderr = <<>>
          /\ exitCode = 1
          /\ results = <<>>
    /\ (pc = "exit" /\ argv = <<>> /\ ~corpusFile) =>
          /\ stdout = <<>>
          /\ stderr = ErrCorpus
          /\ exitCode = 1
          /\ results = <<>>

\* C6 witness: usage printed with the classifier and the encoder both missing
C6_Witness ==
    /\ pc = "exit"
    /\ argv = <<>>
    /\ corpusFile /\ ~modelFile /\ ~encoderFile
    /\ stdout = <<UsageLine>>
    /\ exitCode = 1

----------------------------------------------------------------------------
(* C7 *)

\* C7: every word sent to the fallback is compared through the corpus-wide
\* skip-aware mean and has cgram "unknown" and genre "none", also when its
\* trimmed form is a lemma.
C7_FallbackUsesGlobalMean ==
    \A i \in Processed :
       routes[i] = "fallback" =>
          /\ df_inputs[i].avg_freq = GlobalMean(nanmean, df_master)
          /\ df_inputs[i].cgram = "unknown"
          /\ df_inputs[i].genre = Str("none")

----------------------------------------------------------------------------
(* C8 *)

\* C8: for a word prepare_input finds in the corpus, the average is half the
\* sum of the two measures of the first matching record, a missing measure
\* counting as zero; it is never NaN.
C8_KnownAverageZeroFilled ==
    \A i \in Processed :
       TrimmedLemma(argv[i]) =>
          /\ ~IsNaN(df_inputs[i].avg_freq)
          /\ df_inputs[i].avg_freq =
                Half(FAdd(ZeroIfMissing(FirstRecord(argv[i]).freqlemfilms2),
                          ZeroIfMissing(FirstRecord(argv[i]).freqlemlivres)))

----------------------------------------------------------------------------
(* C9 *)

\* C9 as stated: the sequence the thresholds are computed from holds, for
\* every record, the mean of its two measures with a missing one as zero.
C9_Original ==
    (pc \in {"loop", "print"}) =>
       /\ Len(freq_series) = Len(df_master)
       /\ \A k \in DOMAIN df_master :
             freq_series[k] = Half(FAdd(ZeroIfMissing(df_master[k].freqlemfilms2),
                                        ZeroIfMissing(df_master[k].freqlemlivres)))

\* C9 amended: the sequence holds, for every record, the mean of the measures
\* that are present: half the sum when both are, the present measure itself
\* when exactly one is missing (skipped, not zeroed), and zero when both are.
C9_SeriesSkipsMissing ==
    (pc \in {"loop", "print"}) =>
       /\ Len(freq_series) = Len(df_master)
       /\ \A k \in DOMAIN df_master :
             LET f == df_master[k].freqlemfilms2
                 b == df_master[k].freqlemlivres
             IN  /\ (~IsNaN(f) /\ ~IsNaN(b)) => freq_series[k] = Half(FAdd(f, b))
                 /\ (~IsNaN(f) /\ IsNaN(b)) => freq_series[k] = f
                 /\ (IsNaN(f) /\ ~IsNaN(b)) => freq_series[k] = b
                 /\ (IsNaN(f) /\ IsNaN(b)) => freq_series[k] = Num(0)

\* C9 witness: thresholds computed over a record with exactly one measure
\* missing and a positive present one
C9_Witness ==
    /\ pc = "loop"
    /\ \E k \in DOMAIN df_master :
          /\ IsNaN(df_master[k].freqlemfilms2)
          /\ ~IsNaN(df_master[k].freqlemlivres)
          /\ df_master[k].freqlemlivres # Num(0)
          /\ freq_series[k] = df_master[k].freqlemlivres

----------------------------------------------------------------------------
(* C10 *)

\* C10: the genre of every feature row is a string: "none" when the word is
\* unknown or the matched record has no gender (no column, a missing cell, an
\* empty value), the record's gender otherwise.
C10_GenreIsString ==
    \A i \in Processed :
       /\ IsStr(df_inputs[i].genre)
       /\ ~TrimmedLemma(argv[i]) => df_inputs[i].genre = Str("none")
       /\ TrimmedLemma(argv[i]) =>
             LET r == FirstRecord(argv[i])
             IN  IF "genre" \notin DOMAIN r THEN df_inputs[i].genre = Str("none")
                 ELSE IF ~IsStr(r.genre) \/ r.genre = Str("")
                      THEN df_inputs[i].genre = Str("none")
                      ELSE df_inputs[i].genre = r.genre

====
